---- MODULE Spec2Model ----
(***************************************************************************)
(* Model of the output-encoding core of darkpicolib:                       *)
(*   - LogsDisplay (inland_sh1106_oled_display.rs): a ring of 10 log lines *)
(*     with a throttled refresh of the SH1106 text display;                *)
(*   - the line validators of the KS0061 / Lcd character displays.         *)
(* Strings are sequences of Unicode code points; a byte length is computed *)
(* from the UTF-8 width of every code point.  Time is in milliseconds.     *)
(***************************************************************************)
EXTENDS Integers, Sequences, FiniteSets, TLC

(***************************************************************************)
(* Program constants                                                       *)
(***************************************************************************)
INLAND_SH1106_MAX_TEXT_LINES == 10
INLAND_SH1106_MAX_CHARS_PER_LINE == 32
INLAND_SH1106_LOGS_REFRESH_INTERVAL_MS == 75
INLAND_KS0061_COLS == 16
INLAND_KS0061_ROWS == 2
INLAND_KS0061_MAX_CHARS_PER_LINE == INLAND_KS0061_COLS
INLAND_KS0061_MAX_CHARS_TOTAL == INLAND_KS0061_COLS * INLAND_KS0061_ROWS
LogEntryCapacity == 32
LcdStringCapacity == 16
PreviewCapacity == 64

(***************************************************************************)
(* Bounds of the model                                                     *)
(***************************************************************************)
MaxLogs == 12
MaxFreeLogs == 3
MaxClock == 150
MaxRun == 34
MaxTail == 2

(***************************************************************************)
(* Strings                                                                 *)
(***************************************************************************)
Min(a, b) == IF a < b THEN a ELSE b

Rep(c, n) == [i \in 1..n |-> c]

\* char::len_utf8
len_utf8(c) == IF c < 128 THEN 1 ELSE IF c < 2048 THEN 2 ELSE IF c < 65536 THEN 3 ELSE 4

RECURSIVE ByteLen(_)
\* str::len: the length in bytes
ByteLen(s) == IF s = <<>> THEN 0 ELSE len_utf8(Head(s)) + ByteLen(Tail(s))

\* str::chars().count()
CharCount(s) == Len(s)

\* str::chars().take(n)
TakeChars(s, n) == SubSeq(s, 1, Min(n, Len(s)))

\* char::is_ascii_graphic: U+0021 ..= U+007E
is_ascii_graphic(c) == c >= 33 /\ c <= 126

Option_None == [some |-> FALSE, t |-> 0]
Option_Some(x) == [some |-> TRUE, t |-> x]

(***************************************************************************)
(* State                                                                   *)
(***************************************************************************)
VARIABLES
    logs,          \* LogsDisplay.logs: [0..9 -> string]
    head,          \* LogsDisplay.head
    count,         \* LogsDisplay.count
    dirty,         \* LogsDisplay.dirty
    last_refresh,  \* LogsDisplay.last_refresh: Option<Instant>
    clock,         \* the monotonic clock read by Instant::now()
    logged,        \* history: the messages passed to log(), in call order
    frame,         \* the lines passed to the latest display_str_arr call
    last_render,   \* history: time and outcome of the latest display_str_arr call
    call,          \* history: what the latest public call did
    prev,          \* history: what the public call before it did
    unrendered,    \* history: a message was pushed since the last successful render
    txt_in,        \* input string of the text functions
    txt_op,        \* which text function has been applied to txt_in
    txt_out,       \* its result
    pwm_clock_hz,  \* the PWM clock passed to ServoConfig::new_precomputed
    spec,          \* the ServoSpec passed to it
    config,        \* the ServoConfig of the servo, once it is built
    angle_deg,     \* the angle passed to the latest Servo::set_angle
    duty,          \* the duty written to the PWM slice by the latest set_angle
    outcome        \* history: what the latest set_angle did

vars == <<logs, head, count, dirty, last_refresh, clock, logged, frame,
          last_render, call, prev, unrendered, txt_in, txt_op, txt_out,
          pwm_clock_hz, spec, config, angle_deg, duty, outcome>>

logVars == <<logs, head, count, dirty, last_refresh, clock, logged, frame,
             last_render, call, prev, unrendered>>

txtVars == <<txt_in, txt_op, txt_out>>

servoVars == <<pwm_clock_hz, spec, config, angle_deg, duty, outcome>>

\* no servo has been built
NoServo ==
    /\ pwm_clock_hz = <<>>
    /\ spec = <<>>
    /\ config = <<>>
    /\ angle_deg = <<>>
    /\ duty = 0
    /\ outcome = <<>>

Slots == 0..(INLAND_SH1106_MAX_TEXT_LINES - 1)

\* the messages the k-th log() call may be given: the k-th letter, alone or
\* repeated 33 times for the first MaxFreeLogs calls, then 1, 33 or 32 times
\* in turn
MsgsAt(k) ==
    IF k <= MaxFreeLogs
    THEN {Rep(96 + k, 1), Rep(96 + k, INLAND_SH1106_MAX_CHARS_PER_LINE + 1)}
    ELSE {Rep(96 + k, CASE k % 3 = 0 -> INLAND_SH1106_MAX_CHARS_PER_LINE
                        [] k % 3 = 1 -> 1
                        [] OTHER -> INLAND_SH1106_MAX_CHARS_PER_LINE + 1)}

\* the clock advances by one of these between two calls
Deltas == {0, INLAND_SH1106_LOGS_REFRESH_INTERVAL_MS - 1,
           INLAND_SH1106_LOGS_REFRESH_INTERVAL_MS}

NoCall == [op |-> "new", now |-> 0, dirty_in |-> FALSE, last_in |-> Option_None,
           rendered |-> FALSE, ok |-> FALSE, result |-> "unit"]

\* what the history keeps of the call before the latest one
Brief(c) == [op |-> c.op, now |-> c.now, rendered |-> c.rendered, ok |-> c.ok]

NoResult == [kind |-> "None", text |-> <<>>, actual |-> 0, max |-> 0,
             ch |-> 0, content |-> <<>>]

(***************************************************************************)
(* HeaplessString<N> (crate::heapless)                                     *)
(***************************************************************************)
\* HeaplessString::push: appends c when the string holds fewer than cap
\* characters, and fails (leaving the string as it is) otherwise
HeaplessString_push(s, cap, c) == IF Len(s) < cap THEN s \o <<c>> ELSE s

(***************************************************************************)
(* InlandSh1106OledDisplay::display_str_arr                                *)
(***************************************************************************)
\* an operation on a display: clear, draw (a line at a row), flush, home,
\* set_cursor or print
DisplayOp(op, row, text) == [op |-> op, row |-> row, text |-> text]

\* what display_str and display_str_arr do to the display once the lines
\* are accepted: clear the buffer, draw each line at its row, flush
draw_ops(lines) ==
    <<DisplayOp("clear", 0, <<>>)>>
    \o [i \in 1..Len(lines) |-> DisplayOp("draw", i - 1, lines[i])]
    \o <<DisplayOp("flush", 0, <<>>)>>

\* the outcome of display_str_arr(lines) when the SPI flush succeeds
\* (bus_ok) or fails; ops are the operations made on the display
display_str_arr(lines, bus_ok) ==
    IF Len(lines) > INLAND_SH1106_MAX_TEXT_LINES
    THEN [kind |-> "TooManyLines", actual |-> Len(lines),
          max |-> INLAND_SH1106_MAX_TEXT_LINES, index |-> 0, ops |-> <<>>]
    ELSE IF \E i \in 1..Len(lines) : CharCount(lines[i]) > INLAND_SH1106_MAX_CHARS_PER_LINE
    THEN LET i == CHOOSE j \in 1..Len(lines) :
                     /\ CharCount(lines[j]) > INLAND_SH1106_MAX_CHARS_PER_LINE
                     /\ \A k \in 1..(j - 1) :
                            CharCount(lines[k]) <= INLAND_SH1106_MAX_CHARS_PER_LINE
         IN [kind |-> "LineTooLong", actual |-> CharCount(lines[i]),
             max |-> INLAND_SH1106_MAX_CHARS_PER_LINE, index |-> i - 1,
             ops |-> <<>>]
    ELSE IF bus_ok
    THEN [kind |-> "Ok", actual |-> 0, max |-> 0, index |-> 0,
          ops |-> draw_ops(lines)]
    ELSE [kind |-> "Communication", actual |-> 0, max |-> 0, index |-> 0,
          ops |-> draw_ops(lines)]

(***************************************************************************)
(* LogsDisplay                                                             *)
(***************************************************************************)
RECURSIVE push_chars(_, _)
\* the loop of push_log: for c in chars { let _ = entry.push(c); }
push_chars(entry, chars) ==
    IF chars = <<>> THEN entry
    ELSE push_chars(HeaplessString_push(entry, LogEntryCapacity, Head(chars)),
                    Tail(chars))

\* store_entry cutting one character early
store_entry_short(msg) ==
    push_chars(<<>>, TakeChars(msg, INLAND_SH1106_MAX_CHARS_PER_LINE - 1))

\* the entry push_log stores for msg
store_entry(msg) ==
    push_chars(<<>>, TakeChars(msg, INLAND_SH1106_MAX_CHARS_PER_LINE))

\* push_log with the head left in place when a full ring is overwritten
push_log_head_kept(self, msg) ==
    LET full == ~(self.count < INLAND_SH1106_MAX_TEXT_LINES)
        insert_at == IF ~full
                     THEN (self.head + self.count) % INLAND_SH1106_MAX_TEXT_LINES
                     ELSE self.head
    IN [self EXCEPT
          !.count = IF ~full THEN self.count + 1 ELSE self.count,
          !.logs = [self.logs EXCEPT ![insert_at] = store_entry(msg)]]

\* LogsDisplay::push_log on self = [logs, head, count, dirty, last_refresh]
push_log(self, msg) ==
    LET full == ~(self.count < INLAND_SH1106_MAX_TEXT_LINES)
        insert_at == IF ~full
                     THEN (self.head + self.count) % INLAND_SH1106_MAX_TEXT_LINES
                     ELSE self.head
    IN [self EXCEPT
          !.count = IF ~full THEN self.count + 1 ELSE self.count,
          !.head = IF ~full THEN self.head
                   ELSE (self.head + 1) % INLAND_SH1106_MAX_TEXT_LINES,
          !.logs = [self.logs EXCEPT ![insert_at] = store_entry(msg)]]

\* render_lines with the entries first and the empty lines after them
render_lines_top(self) ==
    [k \in 1..INLAND_SH1106_MAX_TEXT_LINES |->
       IF k - 1 < self.count
       THEN self.logs[(self.head + (k - 1)) % INLAND_SH1106_MAX_TEXT_LINES]
       ELSE <<>>]

\* the lines array refresh_if_due builds: pad empty lines, then the entries
render_lines(self) ==
    LET pad == INLAND_SH1106_MAX_TEXT_LINES - self.count
    IN [k \in 1..INLAND_SH1106_MAX_TEXT_LINES |->
          IF k - 1 < pad THEN <<>>
          ELSE self.logs[(self.head + (k - 1 - pad)) % INLAND_SH1106_MAX_TEXT_LINES]]

\* is_due without the interval test
is_due_unthrottled(self, force, now) == self.dirty

\* is_due applying the interval test to a forced refresh too
is_due_unforced(self, force, now) ==
    IF ~self.dirty THEN FALSE
    ELSE IF /\ self.last_refresh.some
            /\ now < self.last_refresh.t + INLAND_SH1106_LOGS_REFRESH_INTERVAL_MS
    THEN FALSE
    ELSE TRUE

\* is_due with now <= next_refresh as its interval test
is_due_late(self, force, now) ==
    IF ~self.dirty THEN FALSE
    ELSE IF /\ ~force
            /\ self.last_refresh.some
            /\ now <= self.last_refresh.t + INLAND_SH1106_LOGS_REFRESH_INTERVAL_MS
    THEN FALSE
    ELSE TRUE

\* the early returns of refresh_if_due: TRUE when it goes on to render
is_due(self, force, now) ==
    IF ~self.dirty THEN FALSE
    ELSE IF /\ ~force
            /\ self.last_refresh.some
            /\ now < self.last_refresh.t + INLAND_SH1106_LOGS_REFRESH_INTERVAL_MS
    THEN FALSE
    ELSE TRUE

\* commit clearing dirty and stamping last_refresh whatever the outcome
commit_unchecked(self, now, is_ok) ==
    [self EXCEPT !.dirty = FALSE, !.last_refresh = Option_Some(now)]

\* commit clearing dirty on success but leaving last_refresh alone
commit_unstamped(self, now, is_ok) ==
    IF is_ok THEN [self EXCEPT !.dirty = FALSE] ELSE self

\* commit clearing dirty when the render failed too
commit_dropped(self, now, is_ok) ==
    IF is_ok
    THEN [self EXCEPT !.dirty = FALSE, !.last_refresh = Option_Some(now)]
    ELSE [self EXCEPT !.dirty = FALSE]

\* the end of refresh_if_due: if display_str_arr(..).is_ok() { .. }
commit(self, now, is_ok) ==
    IF is_ok
    THEN [self EXCEPT !.dirty = FALSE, !.last_refresh = Option_Some(now)]
    ELSE self

\* LogsDisplay::refresh_if_due; now is the reading of Instant::now()
refresh_if_due(self, force, now, bus_ok) ==
    IF ~is_due(self, force, now)
    THEN [self |-> self, rendered |-> FALSE, ok |-> FALSE, lines |-> <<>>]
    ELSE LET lines == render_lines(self)
             is_ok == display_str_arr(lines, bus_ok).kind = "Ok"
         IN [self |-> commit(self, now, is_ok),
             rendered |-> TRUE, ok |-> is_ok, lines |-> lines]

Self == [logs |-> logs, head |-> head, count |-> count, dirty |-> dirty,
         last_refresh |-> last_refresh]

\* the effect of a public call that ran refresh_if_due on entry state `at`
Finish(op, at, r, now) ==
    /\ logs' = r.self.logs
    /\ head' = r.self.head
    /\ count' = r.self.count
    /\ dirty' = r.self.dirty
    /\ last_refresh' = r.self.last_refresh
    /\ clock' = now
    /\ frame' = IF r.rendered THEN r.lines ELSE frame
    /\ last_render' = IF r.rendered THEN [some |-> TRUE, t |-> now, ok |-> r.ok]
                                    ELSE last_render
    /\ call' = [op |-> op, now |-> now, dirty_in |-> at.dirty,
                last_in |-> at.last_refresh,
                rendered |-> r.rendered, ok |-> r.ok, result |-> "unit"]
    /\ prev' = Brief(call)
    /\ unrendered' = IF r.rendered /\ r.ok THEN FALSE ELSE (op = "log" \/ unrendered)

\* log leaving dirty as it finds it
log_unmarked(msg, now, bus_ok) ==
    /\ Len(logged) < MaxLogs
    /\ LET at == push_log(Self, msg)
       IN Finish("log", at, refresh_if_due(at, FALSE, now, bus_ok), now)
    /\ logged' = Append(logged, msg)
    /\ UNCHANGED <<txtVars, servoVars>>

\* LogsDisplay::log
log(msg, now, bus_ok) ==
    /\ Len(logged) < MaxLogs
    /\ LET pushed == push_log(Self, msg)
           at == [pushed EXCEPT !.dirty = TRUE]
       IN Finish("log", at, refresh_if_due(at, FALSE, now, bus_ok), now)
    /\ logged' = Append(logged, msg)
    /\ UNCHANGED <<txtVars, servoVars>>

\* flush asking for a refresh that is not forced
flush_unforced(now, bus_ok) ==
    /\ Finish("flush", Self, refresh_if_due(Self, FALSE, now, bus_ok), now)
    /\ UNCHANGED <<logged, txtVars, servoVars>>

\* LogsDisplay::flush
flush(now, bus_ok) ==
    /\ Finish("flush", Self, refresh_if_due(Self, TRUE, now, bus_ok), now)
    /\ UNCHANGED <<logged, txtVars, servoVars>>

\* LogsDisplay::new
LogsDisplay_new ==
    /\ logs = [i \in Slots |-> <<>>]
    /\ head = 0
    /\ count = 0
    /\ dirty = FALSE
    /\ last_refresh = Option_None

Init ==
    /\ LogsDisplay_new
    /\ clock = 0
    /\ logged = <<>>
    /\ frame = <<>>
    /\ last_render = [some |-> FALSE, t |-> 0, ok |-> FALSE]
    /\ call = NoCall
    /\ prev = Brief(NoCall)
    /\ unrendered = FALSE
    /\ txt_in = <<>>
    /\ txt_op = "none"
    /\ txt_out = NoResult
    /\ NoServo

Times == {clock + d : d \in Deltas} \cap (0..MaxClock)

LogStep == \E msg \in MsgsAt(Len(logged) + 1), now \in Times, bus_ok \in BOOLEAN : log(msg, now, bus_ok)

FlushStep == \E now \in Times, bus_ok \in BOOLEAN : flush(now, bus_ok)

Next == LogStep \/ FlushStep

Spec == Init /\ [][Next]_vars

\* log() is the only public call made
NextLogOnly == LogStep

SpecLogOnly == Init /\ [][NextLogOnly]_vars

(***************************************************************************)
(* Properties of LogsDisplay                                               *)
(***************************************************************************)
\* the entries of the ring read from head for count entries
RingView == [i \in 1..count |-> logs[(head + i - 1) % INLAND_SH1106_MAX_TEXT_LINES]]

\* the first n characters of m
Prefix(m, n) == [i \in 1..Min(n, Len(m)) |-> m[i]]

\* the last n elements of a sequence
LastN(s, n) == [i \in 1..n |-> s[Len(s) - n + i]]

\* C1: after m log() calls on a new LogsDisplay, count = min(m, 10) and the
\* ring read from head for count entries holds the last min(m, 10) logged
\* messages (each as stored, cut to 32 characters) in insertion order; older
\* messages are evicted oldest-first.
C1_RingHoldsLastMessages ==
    /\ count = Min(Len(logged), INLAND_SH1106_MAX_TEXT_LINES)
    /\ head \in Slots
    /\ \A i \in 1..count :
          RingView[i] = Prefix(LastN(logged, count)[i], INLAND_SH1106_MAX_CHARS_PER_LINE)

\* two evictions happened: 12 messages were logged, the head has moved twice
\* and the slots of the two oldest messages hold the two newest, the 11th
\* cut to 32 characters
C1_Witness ==
    /\ Len(logged) = INLAND_SH1106_MAX_TEXT_LINES + 2
    /\ head = 2
    /\ count = INLAND_SH1106_MAX_TEXT_LINES
    /\ Len(logged[11]) > INLAND_SH1106_MAX_CHARS_PER_LINE
    /\ logs[0] = Prefix(logged[11], INLAND_SH1106_MAX_CHARS_PER_LINE)
    /\ logs[1] = logged[12]
    /\ logs[2] = Prefix(logged[3], INLAND_SH1106_MAX_CHARS_PER_LINE)

\* C2: every physical render issued by LogsDisplay passes exactly 10 lines,
\* the first 10 - count of them empty and the remaining count the held
\* entries, oldest first, whatever head and count are.
C2_RenderPassesPaddedWindow ==
    call.rendered =>
        /\ Len(frame) = INLAND_SH1106_MAX_TEXT_LINES
        /\ \A k \in 1..(INLAND_SH1106_MAX_TEXT_LINES - count) : frame[k] = <<>>
        /\ \A i \in 1..count :
              frame[INLAND_SH1106_MAX_TEXT_LINES - count + i] = RingView[i]

\* a render of a partly filled ring, and a render of a ring whose head moved
C2_Witness ==
    /\ call.rendered
    /\ \/ count = 3
       \/ count = INLAND_SH1106_MAX_TEXT_LINES /\ head = 1

Renders(c) == IF c.rendered THEN 1 ELSE 0

CloseLogs ==
    /\ prev.op = "log"
    /\ call.op = "log"
    /\ call.now - prev.now < INLAND_SH1106_LOGS_REFRESH_INTERVAL_MS

\* C3 as claimed: two consecutive log() calls less than 75 ms apart make
\* exactly one physical render call between them.
C3_ExactlyOneRender == CloseLogs => Renders(prev) + Renders(call) = 1

\* C3: two consecutive log() calls less than 75 ms apart, the first of which
\* renders successfully, make exactly one physical render call between them.
C3_OneRenderAfterSuccess ==
    (CloseLogs /\ prev.rendered /\ prev.ok) => Renders(prev) + Renders(call) = 1

\* the second log() came 74 ms after the first rendered, and was throttled
C3_Witness ==
    /\ CloseLogs
    /\ prev.rendered /\ prev.ok
    /\ call.now - prev.now = INLAND_SH1106_LOGS_REFRESH_INTERVAL_MS - 1
    /\ ~call.rendered

\* C4: flush() called with dirty = true issues a physical render whatever the
\* time since last_refresh; called with dirty = false it issues none.
C4_FlushRendersIffDirty == call.op = "flush" => (call.rendered <=> call.dirty_in)

\* flush() rendered at the very clock reading of the last refresh
C4_Witness ==
    /\ call.op = "flush"
    /\ call.dirty_in
    /\ call.rendered
    /\ call.last_in.some
    /\ call.last_in.t = call.now

\* the refresh attempt of the latest call was due by the throttle's rule
Due(c) ==
    /\ c.dirty_in
    /\ \/ ~c.last_in.some
       \/ c.now >= c.last_in.t + INLAND_SH1106_LOGS_REFRESH_INTERVAL_MS

\* C5: the refresh attempt of log() issues a physical render if and only if
\* dirty is true and (last_refresh is None or now >= last_refresh + 75 ms);
\* otherwise it renders nothing and leaves dirty and last_refresh as they were.
C5_NonForcedRefresh ==
    call.op = "log" =>
        /\ call.rendered <=> Due(call)
        /\ ~call.rendered => (dirty = call.dirty_in /\ last_refresh = call.last_in)

\* log() rendered exactly 75 ms after the last refresh
C5_Witness ==
    /\ call.op = "log"
    /\ call.rendered
    /\ call.last_in.some
    /\ call.now = call.last_in.t + INLAND_SH1106_LOGS_REFRESH_INTERVAL_MS

Ring(self) == <<self.logs, self.head, self.count>>

\* the state in which the call that made this step entered refresh_if_due
EntryOfStep ==
    IF call'.op = "log"
    THEN push_log(Self, logged'[Len(logged')])
    ELSE Self

\* C6: a successful physical render sets dirty to false and last_refresh to
\* the clock reading of that call; a render failing with a transport error
\* leaves dirty true, leaves last_refresh and the ring (head, count, entries)
\* as they were, and log()/flush() return nothing to their caller.
C6_RenderOutcome ==
    [][/\ (call'.rendered /\ call'.ok) =>
              /\ dirty' = FALSE
              /\ last_refresh' = Option_Some(call'.now)
              /\ call'.now = clock'
       /\ (call'.rendered /\ ~call'.ok) =>
              /\ dirty' = TRUE
              /\ last_refresh' = last_refresh
              /\ <<logs', head', count'>> = Ring(EntryOfStep)
              /\ call'.result = "unit"]_vars

\* a render failed after an earlier one had succeeded
C6_Witness ==
    /\ call.rendered
    /\ ~call.ok
    /\ dirty
    /\ last_refresh.some
    /\ last_refresh.t < call.now
    /\ count > 1

\* C7 as claimed: in a run of log() calls, any two physical render calls are
\* at least 75 ms apart.
C7_RendersSpaced ==
    [][(call'.rendered /\ last_render.some) =>
           call'.now - last_render.t >= INLAND_SH1106_LOGS_REFRESH_INTERVAL_MS]_vars

\* C7: in a run of log() calls, a physical render call comes at least 75 ms
\* after the physical render call before it when that one succeeded.
C7_RendersSpacedAfterSuccess ==
    [][(call'.rendered /\ last_render.some /\ last_render.ok) =>
           call'.now - last_render.t >= INLAND_SH1106_LOGS_REFRESH_INTERVAL_MS]_vars

\* a second render, 75 ms after a successful one, with a throttled log()
\* between the two
C7_Witness ==
    /\ call.op = "log"
    /\ call.rendered
    /\ call.last_in.some
    /\ call.now = call.last_in.t + INLAND_SH1106_LOGS_REFRESH_INTERVAL_MS
    /\ prev.op = "log"
    /\ ~prev.rendered

\* the call before the latest one made a render that failed
AfterFailure == prev.rendered /\ ~prev.ok

\* C8 as claimed: after a physical render fails, the next call, log() or
\* flush(), attempts a physical render again.
C8_NextCallRetries == AfterFailure => call.rendered

\* C8: after a physical render fails, the next call attempts a physical
\* render again if it is flush(), or if it is log() and the failed render was
\* made by log(); a log() that follows a failed flush() retries only when the
\* refresh interval has passed.
C8_RetryAfterFailure ==
    AfterFailure =>
        /\ (call.op = "flush" \/ prev.op = "log") => call.rendered
        /\ call.op = "log" => (call.rendered <=> Due(call))

\* a log() retried the render that the log() before it had failed, inside
\* the refresh interval of an earlier success
C8_Witness ==
    /\ AfterFailure
    /\ prev.op = "log"
    /\ call.op = "log"
    /\ call.rendered
    /\ call.last_in.some
    /\ call.now = prev.now

(***************************************************************************)
(* Line validation: InlandKs0061Line and LcdString                         *)
(***************************************************************************)
Alphabet == {97, 32, 126, 10, 13, 127, 233, 8364}

StrsUpTo(n) == UNION {[1..k -> Alphabet] : k \in 0..n}

\* the characters the runs of the inputs are made of
RunChars == {97, 10, 233, 8364}

\* a run of one character followed or preceded by a short string
TextInputs ==
    {Rep(a, n) \o t : a \in RunChars, n \in 0..MaxRun, t \in StrsUpTo(MaxTail)}
    \cup {t \o Rep(a, n) : a \in RunChars, n \in 0..MaxRun, t \in StrsUpTo(MaxTail)}

\* c.is_ascii_graphic() || c == ' '
displayable(c) == is_ascii_graphic(c) \/ c = 32

\* the first character of value that is not displayable
first_invalid(value) ==
    LET i == CHOOSE j \in 1..Len(value) :
                 /\ ~displayable(value[j])
                 /\ \A k \in 1..(j - 1) : displayable(value[k])
    IN value[i]

Panic == [kind |-> "Panic", text |-> <<>>, actual |-> 0, max |-> 0,
          ch |-> 0, content |-> <<>>]

\* an error whose content is value.chars().take(64).collect() into a
\* heapless::String<64>; collecting more than 64 bytes panics
Err(kind, value, actual, max, ch) ==
    LET content == TakeChars(value, 64)
    IN IF ByteLen(content) > PreviewCapacity THEN Panic
       ELSE [kind |-> kind, text |-> <<>>, actual |-> actual, max |-> max,
             ch |-> ch, content |-> content]

Ok(text) == [kind |-> "Ok", text |-> text, actual |-> 0, max |-> 0,
             ch |-> 0, content |-> <<>>]

\* the body shared by the two validators, which differ in how they measure
\* the length: len is value.chars().count() or value.len()
line_try_from(value, len, cap) ==
    IF len > cap
    THEN Err("TooLong", value, len, cap, 0)
    ELSE IF \E i \in 1..Len(value) : ~displayable(value[i])
    THEN Err("ContainsInvalidCharacters", value, 0, 0, first_invalid(value))
    ELSE IF ByteLen(value) > cap
    THEN Err("TooLong", value, len, cap, 0)
    ELSE Ok(value)

\* the validator rejecting a line that fills the capacity exactly
InlandKs0061Line_try_from_strict(value) ==
    line_try_from(value, CharCount(value) + 1, INLAND_KS0061_MAX_CHARS_PER_LINE)

\* impl TryFrom<&str> for InlandKs0061Line
InlandKs0061Line_try_from(value) ==
    line_try_from(value, CharCount(value), INLAND_KS0061_MAX_CHARS_PER_LINE)

\* impl TryFrom<&str> for LcdString
LcdString_try_from(value) ==
    line_try_from(value, ByteLen(value), LcdStringCapacity)

(***************************************************************************)
(* Content splitting: InlandKs0061Content and LcdContent                   *)
(***************************************************************************)
\* the index of the first '\n' of s, or 0
first_newline(s) ==
    IF \E i \in 1..Len(s) : s[i] = 10
    THEN CHOOSE i \in 1..Len(s) : s[i] = 10 /\ \A k \in 1..(i - 1) : s[k] # 10
    ELSE 0

RECURSIVE split_newline(_)
\* str::split('\n')
split_newline(s) ==
    LET i == first_newline(s)
    IN IF i = 0 THEN <<s>>
       ELSE <<SubSeq(s, 1, i - 1)>> \o split_newline(SubSeq(s, i + 1, Len(s)))

\* a line that was ended by '\n' loses a '\r' before it
strip_cr(line) ==
    IF line # <<>> /\ line[Len(line)] = 13 THEN SubSeq(line, 1, Len(line) - 1)
    ELSE line

\* str::lines(): the pieces ended by '\n', each without its "\n" or "\r\n",
\* and the rest of the string when it is not empty
lines_of(s) ==
    LET segs == split_newline(s)
        n == Len(segs)
        ended == [i \in 1..(n - 1) |-> strip_cr(segs[i])]
    IN IF segs[n] = <<>> THEN ended ELSE ended \o <<segs[n]>>

\* byte offset b falls between two characters of s (str::is_char_boundary)
is_char_boundary(s, b) == \E k \in 0..Len(s) : ByteLen(SubSeq(s, 1, k)) = b

\* the number of characters of s before byte offset b
chars_before(s, b) == CHOOSE k \in 0..Len(s) : ByteLen(SubSeq(s, 1, k)) = b

Content(line1, line2) == [kind |-> "Ok", line1 |-> line1, line2 |-> line2]

\* a Result<Line, _> followed by `?`: go on with the line or return the error
Try2(l1, l2, some2) ==
    IF l1.kind # "Ok" THEN l1
    ELSE IF l2.kind # "Ok" THEN l2
    ELSE Content(Option_Some(l1.text),
                 IF some2 THEN Option_Some(l2.text) ELSE Option_None)

\* the part the two splitters share, from `if value.contains('\n')` on; len
\* is value.chars().count() or value.len(), lcd tells whose line validator
\* is called (LcdString's or InlandKs0061Line's)
content_split(value, len, lcd) ==
    LET Line(l) == IF lcd THEN LcdString_try_from(l)
                   ELSE InlandKs0061Line_try_from(l)
    IN
    IF first_newline(value) # 0
    THEN LET ls == lines_of(value)
         IN IF Len(ls) > INLAND_KS0061_ROWS
            THEN Err("TooManyLines", value, Len(ls), INLAND_KS0061_ROWS, 0)
            ELSE Try2(Line(IF Len(ls) >= 1 THEN ls[1] ELSE <<>>),
                      Line(IF Len(ls) >= 2 THEN ls[2] ELSE <<>>), TRUE)
    ELSE IF len <= INLAND_KS0061_MAX_CHARS_PER_LINE
    THEN Try2(Line(value), Ok(<<>>), FALSE)
    ELSE IF len <= INLAND_KS0061_MAX_CHARS_TOTAL
    THEN IF ~is_char_boundary(value, INLAND_KS0061_MAX_CHARS_PER_LINE)
         THEN Panic
         ELSE LET k == chars_before(value, INLAND_KS0061_MAX_CHARS_PER_LINE)
              IN Try2(Line(SubSeq(value, 1, k)),
                      Line(SubSeq(value, k + 1, Len(value))), TRUE)
    ELSE Err("TooLong", value, len, INLAND_KS0061_MAX_CHARS_TOTAL, 0)

\* c is neither '\n' nor displayable
rejected(c) == c # 10 /\ ~displayable(c)

\* the first character of value that is rejected
first_rejected(value) ==
    LET i == CHOOSE j \in 1..Len(value) :
                 /\ rejected(value[j])
                 /\ \A k \in 1..(j - 1) : ~rejected(value[k])
    IN value[i]

\* the splitter cutting the second row one character short
InlandKs0061Content_try_from_cut(value) ==
    IF value = <<>> THEN Content(Option_None, Option_None)
    ELSE IF \E i \in 1..Len(value) : rejected(value[i])
    THEN Err("ContainsInvalidCharacters", value, 0, 0, first_rejected(value))
    ELSE content_split(SubSeq(value, 1, Len(value) - 1), CharCount(value) - 1,
                       FALSE)

\* impl TryFrom<&str> for InlandKs0061Content
InlandKs0061Content_try_from(value) ==
    IF value = <<>> THEN Content(Option_None, Option_None)
    ELSE IF \E i \in 1..Len(value) : rejected(value[i])
    THEN Err("ContainsInvalidCharacters", value, 0, 0, first_rejected(value))
    ELSE content_split(value, CharCount(value), FALSE)

\* impl TryFrom<&str> for LcdContent
LcdContent_try_from(value) ==
    IF value = <<>> THEN Content(Option_None, Option_None)
    ELSE content_split(value, ByteLen(value), TRUE)

(***************************************************************************)
(* InlandSh1106OledDisplay::display_str                                    *)
(***************************************************************************)
\* the outcome of display_str(content) when the SPI flush succeeds (bus_ok)
\* or fails; rows are the lines drawn, ops the operations made on the display
display_str(content, bus_ok) ==
    LET segs == split_newline(content)
        bad(j) == \/ j > INLAND_SH1106_MAX_TEXT_LINES
                  \/ CharCount(segs[j]) > INLAND_SH1106_MAX_CHARS_PER_LINE
    IN IF \E j \in 1..Len(segs) : bad(j)
       THEN LET i == CHOOSE j \in 1..Len(segs) :
                         bad(j) /\ \A k \in 1..(j - 1) : ~bad(k)
            IN IF i > INLAND_SH1106_MAX_TEXT_LINES
               THEN [kind |-> "TooManyLines", actual |-> i,
                     max |-> INLAND_SH1106_MAX_TEXT_LINES, index |-> 0,
                     rows |-> <<>>, ops |-> <<>>]
               ELSE [kind |-> "LineTooLong", actual |-> CharCount(segs[i]),
                     max |-> INLAND_SH1106_MAX_CHARS_PER_LINE, index |-> i - 1,
                     rows |-> <<>>, ops |-> <<>>]
       ELSE IF bus_ok
       THEN [kind |-> "Ok", actual |-> 0, max |-> 0, index |-> 0, rows |-> segs,
             ops |-> draw_ops(segs)]
       ELSE [kind |-> "Communication", actual |-> 0, max |-> 0, index |-> 0,
             rows |-> segs, ops |-> draw_ops(segs)]

(***************************************************************************)
(* InlandKs0061I2cDisplay and Lcd: display_str and display_content         *)
(***************************************************************************)
\* the operations display_content asks of the character display, in order,
\* each with the error its failure is mapped to
content_steps(content) ==
    <<[step |-> DisplayOp("clear", 0, <<>>), error |-> "Clear"]>>
    \o (IF content.line1.some
        THEN <<[step |-> DisplayOp("home", 0, <<>>), error |-> "SetCursor"],
               [step |-> DisplayOp("print", 0, content.line1.t), error |-> "Print"]>>
        ELSE <<>>)
    \o (IF content.line2.some
        THEN <<[step |-> DisplayOp("set_cursor", 1, <<>>), error |-> "SetCursor"],
               [step |-> DisplayOp("print", 1, content.line2.t), error |-> "Print"]>>
        ELSE <<>>)

\* the outcome of a display call on a character display: what is returned,
\* the content error it carries, and the operations made on the display
Shown(kind, error, ops) == [kind |-> kind, error |-> error, ops |-> ops]

\* display_content; the fail_at-th operation asked of the display fails
\* (none when fail_at is 0 or beyond the last one) and `?` returns its error
display_content(content, fail_at) ==
    LET steps == content_steps(content)
        n == IF fail_at \in 1..Len(steps) THEN fail_at ELSE Len(steps)
    IN Shown(IF fail_at \in 1..Len(steps) THEN steps[fail_at].error ELSE "Ok",
             NoResult, [i \in 1..n |-> steps[i].step])

\* display_str: `let content = Content::try_from(s)?;` then display_content;
\* validated is the outcome of try_from
display_validated(validated, fail_at) ==
    IF validated.kind = "Panic" THEN Shown("Panic", NoResult, <<>>)
    ELSE IF validated.kind # "Ok" THEN Shown("InvalidContent", validated, <<>>)
    ELSE display_content(validated, fail_at)

\* InlandKs0061I2cDisplay::display_str
InlandKs0061I2cDisplay_display_str(s, fail_at) ==
    display_validated(InlandKs0061Content_try_from(s), fail_at)

\* Lcd::display_str
Lcd_display_str(s, fail_at) == display_validated(LcdContent_try_from(s), fail_at)

InitText ==
    /\ LogsDisplay_new
    /\ clock = 0
    /\ logged = <<>>
    /\ frame = <<>>
    /\ last_render = [some |-> FALSE, t |-> 0, ok |-> FALSE]
    /\ call = NoCall
    /\ prev = Brief(NoCall)
    /\ unrendered = FALSE
    /\ txt_in \in TextInputs
    /\ txt_op = "none"
    /\ txt_out = NoResult
    /\ NoServo

Apply(op, out) ==
    /\ txt_op = "none"
    /\ txt_op' = op
    /\ txt_out' = out
    /\ UNCHANGED <<txt_in, logVars, servoVars>>

ks0061_line == Apply("ks0061_line", InlandKs0061Line_try_from(txt_in))

lcd_string == Apply("lcd_string", LcdString_try_from(txt_in))

\* push_log(txt_in) on a new LogsDisplay; the result is the entry it stored
push_entry ==
    LET s == push_log(Self, txt_in)
        at == (s.head + s.count - 1) % INLAND_SH1106_MAX_TEXT_LINES
    IN Apply("push_log", [kind |-> "Entry", text |-> s.logs[at], actual |-> 0,
                          max |-> 0, ch |-> 0, content |-> <<>>])

ks0061_content == Apply("ks0061_content", InlandKs0061Content_try_from(txt_in))

lcd_content == Apply("lcd_content", LcdContent_try_from(txt_in))

oled_display_str ==
    \E bus_ok \in BOOLEAN : Apply("oled_display_str", display_str(txt_in, bus_ok))

\* display_str_arr on the lines of txt_in
oled_display_str_arr ==
    \E bus_ok \in BOOLEAN :
        Apply("oled_display_str_arr",
              display_str_arr(split_newline(txt_in), bus_ok))

\* the operation of the character display that fails, if any
FailAt == 0..5

ks0061_display_str ==
    \E fail_at \in FailAt :
        Apply("ks0061_display_str",
              InlandKs0061I2cDisplay_display_str(txt_in, fail_at))

lcd_display_str ==
    \E fail_at \in FailAt :
        Apply("lcd_display_str", Lcd_display_str(txt_in, fail_at))

NextText ==
    \/ ks0061_line
    \/ lcd_string
    \/ push_entry
    \/ ks0061_content
    \/ lcd_content
    \/ oled_display_str
    \/ oled_display_str_arr
    \/ ks0061_display_str
    \/ lcd_display_str

SpecText == InitText /\ [][NextText]_vars

ShortDisplayable(s) ==
    /\ CharCount(s) <= INLAND_KS0061_MAX_CHARS_PER_LINE
    /\ \A i \in 1..Len(s) : is_ascii_graphic(s[i]) \/ s[i] = 32

\* C10: for every string of at most 16 characters, all ASCII-graphic or
\* space, InlandKs0061Line::try_from and LcdString::try_from succeed and the
\* line's text is the string.
C10_ShortDisplayableAccepted ==
    (txt_op \in {"ks0061_line", "lcd_string"} /\ ShortDisplayable(txt_in)) =>
        /\ txt_out.kind = "Ok"
        /\ txt_out.text = txt_in
        /\ CharCount(txt_out.text) = CharCount(txt_in)

\* a line of exactly 16 characters with a space and a '~' was accepted
C10_Witness ==
    /\ txt_op \in {"ks0061_line", "lcd_string"}
    /\ ShortDisplayable(txt_in)
    /\ CharCount(txt_in) = INLAND_KS0061_MAX_CHARS_PER_LINE
    /\ \E i \in 1..Len(txt_in) : txt_in[i] = 32
    /\ \E i \in 1..Len(txt_in) : txt_in[i] = 126
    /\ txt_out.kind = "Ok"

\* s has a character that is neither ASCII-graphic nor a space
HasInvalid(s) == \E i \in 1..Len(s) : ~(is_ascii_graphic(s[i]) \/ s[i] = 32)

\* the first character of s that is neither ASCII-graphic nor a space
FirstInvalid(s) ==
    s[CHOOSE i \in 1..Len(s) :
          /\ ~(is_ascii_graphic(s[i]) \/ s[i] = 32)
          /\ \A k \in 1..(i - 1) : is_ascii_graphic(s[k]) \/ s[k] = 32]

\* C11: for every string with a character that is neither ASCII-graphic nor
\* a space, whatever its length, line validation fails with the
\* invalid-character error, and invalid_char is the first such character.
C11_InvalidCharacterReported ==
    (txt_op \in {"ks0061_line", "lcd_string"} /\ HasInvalid(txt_in)) =>
        /\ txt_out.kind = "ContainsInvalidCharacters"
        /\ txt_out.ch = FirstInvalid(txt_in)

\* s is made of ASCII-graphic characters and spaces only
Printable(s) == \A i \in 1..Len(s) : is_ascii_graphic(s[i]) \/ s[i] = 32

\* C12: for newline-free input of n printable-ASCII-or-space characters the
\* content splitters return: n = 0, both rows None; 1 <= n <= 16, line1 the
\* whole input and line2 None; 17 <= n <= 32, line1 the characters [0,16)
\* and line2 the characters [16,n); n >= 33, TooLong with actual_length n
\* and max_length 32.
C12_SplitterByLength ==
    (txt_op \in {"ks0061_content", "lcd_content"} /\ Printable(txt_in)) =>
        LET n == CharCount(txt_in)
        IN /\ n = 0 => txt_out = Content(Option_None, Option_None)
           /\ (1 <= n /\ n <= 16) =>
                  txt_out = Content(Option_Some(txt_in), Option_None)
           /\ (17 <= n /\ n <= 32) =>
                  txt_out = Content(Option_Some(SubSeq(txt_in, 1, 16)),
                                    Option_Some(SubSeq(txt_in, 17, n)))
           /\ n >= 33 =>
                  /\ txt_out.kind = "TooLong"
                  /\ txt_out.actual = n
                  /\ txt_out.max = 32

\* an input of 17 characters was split into 16 and 1, and one of more than
\* 32 characters was refused
C12_Witness ==
    /\ txt_op \in {"ks0061_content", "lcd_content"}
    /\ Printable(txt_in)
    /\ \/ /\ CharCount(txt_in) = 17
          /\ txt_out.kind = "Ok"
          /\ txt_out.line2 = Option_Some(<<txt_in[17]>>)
          /\ txt_in[17] # txt_in[16]
       \/ /\ CharCount(txt_in) = 33
          /\ txt_out.kind = "TooLong"

\* the line validator behind each content splitter
LineOf(op, line) ==
    IF op = "ks0061_content" THEN InlandKs0061Line_try_from(line)
    ELSE LcdString_try_from(line)

\* C13: for input containing a newline, more than 2 segments between the
\* newlines make the splitter fail with TooManyLines, before any line is
\* validated; otherwise each segment is validated as a line, the first
\* failing line's error is returned, and on success line1 is the first
\* segment and line2 the second.
C13_NewlineSplit ==
    (txt_op \in {"ks0061_content", "lcd_content"} /\ first_newline(txt_in) # 0) =>
        LET segs == split_newline(txt_in)
            l1 == LineOf(txt_op, segs[1])
            l2 == LineOf(txt_op, segs[2])
        IN IF Len(segs) > 2 THEN txt_out.kind = "TooManyLines"
           ELSE IF l1.kind # "Ok" THEN txt_out = l1
           ELSE IF l2.kind # "Ok" THEN txt_out = l2
           ELSE txt_out = Content(Option_Some(segs[1]), Option_Some(segs[2]))

\* C14: for every input string, multi-byte or of any length, the content
\* splitters and line validators never panic: every call returns a value or
\* one of TooLong, TooManyLines, ContainsInvalidCharacters.
C14_NeverPanics ==
    txt_op \in {"ks0061_line", "lcd_string", "ks0061_content", "lcd_content"} =>
        txt_out.kind \in {"Ok", "TooLong", "TooManyLines", "ContainsInvalidCharacters"}

\* C15: the OLED text path applies the policy of the character-LCD splitter
\* with ROWS = 10 and COLS = 32: a character that is neither printable nor a
\* newline is rejected as invalid, newline-free printable input longer than
\* COLS is wrapped at the COLS boundary onto the next row, and empty input
\* gives no rows.
C15_OledSamePolicy ==
    (txt_op = "oled_display_str" /\ txt_out.kind # "Communication") =>
        LET n == CharCount(txt_in)
            cols == INLAND_SH1106_MAX_CHARS_PER_LINE
        IN /\ (\E i \in 1..n : rejected(txt_in[i])) =>
                  txt_out.kind = "ContainsInvalidCharacters"
           /\ (Printable(txt_in) /\ cols < n /\ n <= 2 * cols) =>
                  /\ txt_out.kind = "Ok"
                  /\ txt_out.rows = <<SubSeq(txt_in, 1, cols),
                                      SubSeq(txt_in, cols + 1, n)>>
           /\ n = 0 => (txt_out.kind = "Ok" /\ txt_out.rows = <<>>)

(***************************************************************************)
(* Unsigned integers of the servo solver (u32 and u64)                     *)
(*                                                                         *)
(* The solver's intermediates reach 2^64.  A number is the sequence of its *)
(* digits in base Radix, lowest first, without leading zeros; zero is <<>>.*)
(***************************************************************************)
\* the bits of a digit
DIGIT_BITS == 15

Radix == 2 ^ DIGIT_BITS

RECURSIVE Nat_(_)
\* the number n
Nat_(n) == IF n = 0 THEN <<>> ELSE <<n % Radix>> \o Nat_(n \div Radix)

RECURSIVE ToInt(_)
\* the value of a number that is small enough to be computed with
ToInt(a) == IF a = <<>> THEN 0 ELSE a[1] + Radix * ToInt(Tail(a))

RECURSIVE Norm(_)
\* a without leading zero digits
Norm(a) ==
    IF a = <<>> THEN <<>>
    ELSE IF a[Len(a)] = 0 THEN Norm(SubSeq(a, 1, Len(a) - 1))
    ELSE a

Digit(a, i) == IF i <= Len(a) THEN a[i] ELSE 0

RECURSIVE AddC(_, _, _)
AddC(a, b, carry) ==
    IF a = <<>> /\ b = <<>> THEN (IF carry = 0 THEN <<>> ELSE <<carry>>)
    ELSE LET t == Digit(a, 1) + Digit(b, 1) + carry
         IN <<t % Radix>>
            \o AddC(IF a = <<>> THEN <<>> ELSE Tail(a),
                    IF b = <<>> THEN <<>> ELSE Tail(b), t \div Radix)

\* a + b
Add(a, b) == AddC(a, b, 0)

RECURSIVE Less(_, _)
\* a < b
Less(a, b) ==
    IF Len(a) # Len(b) THEN Len(a) < Len(b)
    ELSE IF a = <<>> THEN FALSE
    ELSE IF a[Len(a)] # b[Len(b)] THEN a[Len(a)] < b[Len(b)]
    ELSE Less(Norm(SubSeq(a, 1, Len(a) - 1)), Norm(SubSeq(b, 1, Len(b) - 1)))

\* a <= b
Leq(a, b) == ~Less(b, a)

RECURSIVE SubB(_, _, _)
SubB(a, b, borrow) ==
    IF a = <<>> THEN <<>>
    ELSE LET t == a[1] - Digit(b, 1) - borrow
         IN <<t % Radix>>
            \o SubB(Tail(a), IF b = <<>> THEN <<>> ELSE Tail(b),
                    IF t < 0 THEN 1 ELSE 0)

\* a - b, for b <= a
Sub(a, b) == Norm(SubB(a, b, 0))

\* u64::saturating_sub
saturating_sub(a, b) == IF Less(a, b) THEN <<>> ELSE Sub(a, b)

RECURSIVE MulDigit(_, _, _)
MulDigit(a, d, carry) ==
    IF a = <<>> THEN (IF carry = 0 THEN <<>> ELSE <<carry>>)
    ELSE LET t == a[1] * d + carry
         IN <<t % Radix>> \o MulDigit(Tail(a), d, t \div Radix)

RECURSIVE Mul(_, _)
\* a * b
Mul(a, b) ==
    IF a = <<>> \/ b = <<>> THEN <<>>
    ELSE LET rest == Mul(a, Tail(b))
         IN Add(Norm(MulDigit(a, b[1], 0)),
                IF rest = <<>> THEN <<>> ELSE <<0>> \o rest)

RECURSIVE QuotDigit(_, _, _, _)
\* the largest d in lo..hi with d * b <= a
QuotDigit(a, b, lo, hi) ==
    IF lo = hi THEN lo
    ELSE LET mid == (lo + hi + 1) \div 2
         IN IF Leq(Norm(MulDigit(b, mid, 0)), a) THEN QuotDigit(a, b, mid, hi)
            ELSE QuotDigit(a, b, lo, mid - 1)

RECURSIVE DivMod(_, _)
\* quotient and remainder of a by b, for b > 0: long division, from the
\* highest digit of a down
DivMod(a, b) ==
    IF a = <<>> THEN [q |-> <<>>, r |-> <<>>]
    ELSE LET h == DivMod(Tail(a), b)
             cur == Norm(<<a[1]>> \o h.r)
             d == QuotDigit(cur, b, 0, Radix - 1)
         IN [q |-> Norm(<<d>> \o h.q), r |-> Sub(cur, Norm(MulDigit(b, d, 0)))]

\* a / b of unsigned integers
Div(a, b) == DivMod(a, b).q

\* a % b
Mod(a, b) == DivMod(a, b).r

\* core::cmp::min and max
min(a, b) == IF Less(b, a) THEN b ELSE a

max(a, b) == IF Less(a, b) THEN b ELSE a

\* 2^32
U32_RANGE == Mul(Nat_(65536), Nat_(65536))

\* `as u32` of a u64
as_u32(a) == Mod(a, U32_RANGE)

\* u32::MAX
U32_MAX == Sub(U32_RANGE, <<1>>)

\* u16::MAX
U16_MAX == 65535

\* the number millions * 10^6 + rest
Mega(millions, rest) == Add(Mul(Nat_(millions), Nat_(1000000)), Nat_(rest))

(***************************************************************************)
(* ServoConfig::new_precomputed                                            *)
(***************************************************************************)
\* the largest divider, 255 + 15/16, in 1/16 units
MAX_DIVIDER_Q4 == 255 * 16 + 15

\* the smallest divider, 1.0, in 1/16 units
MIN_DIVIDER_Q4 == 16

\* microseconds per second
US_PER_S == 1000000

\* fn us_to_counts(pulse_us: u32, tick_hz: u32, top: u16) -> u16
us_to_counts(pulse_us, tick_hz, top) ==
    LET counts == Div(Add(Mul(pulse_us, tick_hz), Nat_(500000)), Nat_(US_PER_S))
    IN ToInt(min(as_u32(counts), Nat_(top)))

\* ticks_of taking the period for TOP
ticks_of_period(clock_hz, frame_us, divider_q4) ==
    LET tick_hz == as_u32(Div(Mul(clock_hz, Nat_(16)), Nat_(divider_q4)))
        period_ticks == Div(Mul(frame_us, tick_hz), Nat_(US_PER_S))
    IN [tick_hz |-> tick_hz, top |-> as_u32(period_ticks)]

\* one pass of the loop body for divider_q4: the tick rate and TOP it gives
ticks_of(clock_hz, frame_us, divider_q4) ==
    LET tick_hz == as_u32(Div(Mul(clock_hz, Nat_(16)), Nat_(divider_q4)))
        period_ticks == Div(Mul(frame_us, tick_hz), Nat_(US_PER_S))
    IN [tick_hz |-> tick_hz, top |-> as_u32(saturating_sub(period_ticks, <<1>>))]

RECURSIVE fit_divider(_, _, _)
\* the loop: raise divider_q4 until TOP fits or the divider is at its maximum
fit_divider(clock_hz, frame_us, divider_q4) ==
    LET t == ticks_of(clock_hz, frame_us, divider_q4)
    IN IF Leq(t.top, Nat_(U16_MAX)) \/ divider_q4 >= MAX_DIVIDER_Q4
       THEN [divider_q4 |-> divider_q4, tick_hz |-> t.tick_hz, top |-> t.top]
       ELSE fit_divider(clock_hz, frame_us, divider_q4 + 1)

\* the tick rate aimed at: 1 MHz, or the fastest that keeps TOP in 16 bits
target_tick_hz_of(frame_us) ==
    LET max_tick_hz_for_top ==
            as_u32(Div(Mul(Nat_(U16_MAX + 1), Nat_(US_PER_S)), frame_us))
    IN min(Nat_(US_PER_S), max(<<1>>, max_tick_hz_for_top))

\* the divider the loop starts from
first_divider_q4(clock_hz, target_tick_hz) ==
    LET divider_q4 ==
            as_u32(Div(Add(Mul(clock_hz, Nat_(16)), Div(target_tick_hz, <<2>>)),
                       target_tick_hz))
    IN ToInt(min(max(divider_q4, Nat_(MIN_DIVIDER_Q4)), Nat_(MAX_DIVIDER_Q4)))

\* pub fn new_precomputed(pwm_clock_hz: u32, spec: &ServoSpec) -> Self
new_precomputed(clock_hz, s) ==
    LET frame_us == max(<<1>>, s.frame_us)
        pulse_min_us == min(s.pulse_min_us, saturating_sub(frame_us, <<1>>))
        pulse_max_us == min(max(s.pulse_max_us, Add(pulse_min_us, <<1>>)), frame_us)
        target_tick_hz == target_tick_hz_of(frame_us)
        fit == fit_divider(clock_hz, frame_us,
                           first_divider_q4(clock_hz, target_tick_hz))
        top_u16 == ToInt(min(fit.top, Nat_(U16_MAX)))
    IN [top |-> top_u16,
        divider |-> ((fit.divider_q4 \div 16) % 256) * 16 + (fit.divider_q4 % 16),
        tick_hz |-> fit.tick_hz,
        angle_min |-> s.angle_min_deg,
        angle_max |-> s.angle_max_deg,
        duty_min |-> us_to_counts(pulse_min_us, fit.tick_hz, top_u16),
        duty_max |-> us_to_counts(pulse_max_us, fit.tick_hz, top_u16)]

(***************************************************************************)
(* f32 arithmetic of Servo::set_angle                                      *)
(*                                                                         *)
(* A finite f32 is [k |-> "fin", m, e], the number m * 2^e with            *)
(* |m| < 2^24, m odd or zero; the infinities are [k |-> "inf"] with m = 1  *)
(* or -1, and NaN is [k |-> "nan"].  Every operation computes the exact    *)
(* result and rounds it as IEEE 754 does: to 24 significant bits and to a  *)
(* multiple of 2^-149, ties to even, and to an infinity from 2^128 on.     *)
(* -0.0 is not told from 0.0: set_angle never divides by a zero.           *)
(***************************************************************************)
\* the bits of an f32 significand
MANTISSA_DIGITS == 24

\* the exponent of the smallest positive f32, 2^-149
MIN_EXP == -149

\* every finite f32 is below 2^MAX_EXP
MAX_EXP == 128

NAN == [k |-> "nan", m |-> 0, e |-> 0]

INFINITY == [k |-> "inf", m |-> 1, e |-> 0]

NEG_INFINITY == [k |-> "inf", m |-> -1, e |-> 0]

RECURSIVE f32(_, _)
\* the finite f32 m * 2^e, for |m| <= 2^24
f32(m, e) ==
    IF m = 0 THEN [k |-> "fin", m |-> 0, e |-> 0]
    ELSE IF m % 2 = 0 THEN f32(m \div 2, e + 1)
    ELSE [k |-> "fin", m |-> m, e |-> e]

\* f32::MAX, (2^24 - 1) * 2^104
F32_MAX == f32(2 ^ MANTISSA_DIGITS - 1, MAX_EXP - MANTISSA_DIGITS)

\* the number 2^k
Pow2(k) ==
    [i \in 1..(k \div DIGIT_BITS + 1) |->
        IF i = k \div DIGIT_BITS + 1 THEN 2 ^ (k % DIGIT_BITS) ELSE 0]

\* a / 2^k
ShiftRight(a, k) ==
    LET j == k \div DIGIT_BITS
        s == k % DIGIT_BITS
        n == Len(a) - j
    IN IF n <= 0 THEN <<>>
       ELSE Norm([i \in 1..n |->
                    a[j + i] \div 2 ^ s
                    + (Digit(a, j + i + 1) % 2 ^ s) * 2 ^ (DIGIT_BITS - s)])

\* a % 2^k
LowBits(a, k) ==
    LET j == k \div DIGIT_BITS
        s == k % DIGIT_BITS
    IN IF Len(a) <= j THEN a
       ELSE Norm(SubSeq(a, 1, j) \o <<a[j + 1] % 2 ^ s>>)

\* the number of bits of a: the least n with a < 2^n
BitLen(a) ==
    IF a = <<>> THEN 0
    ELSE DIGIT_BITS * (Len(a) - 1)
         + (CHOOSE n \in 1..DIGIT_BITS : 2 ^ (n - 1) <= a[Len(a)] /\ a[Len(a)] < 2 ^ n)

Abs(n) == IF n < 0 THEN 0 - n ELSE n

Max(a, b) == IF a < b THEN b ELSE a

\* a signed number: neg tells the sign of the magnitude mag
Signed(neg, mag) == [neg |-> neg /\ mag # <<>>, mag |-> mag]

\* m * 2^k as a signed number
Scaled(m, k) == Signed(m < 0, Mul(Nat_(Abs(m)), Pow2(k)))

\* x + y of signed numbers
SignedAdd(x, y) ==
    IF x.neg = y.neg THEN Signed(x.neg, Add(x.mag, y.mag))
    ELSE IF Less(x.mag, y.mag) THEN Signed(y.neg, Sub(y.mag, x.mag))
    ELSE Signed(x.neg, Sub(x.mag, y.mag))

\* the f32 nearest to x * 2^e, ties to even
round_f32(x, e) ==
    LET k == Max(0, Max(BitLen(x.mag) - MANTISSA_DIGITS, MIN_EXP - e))
        q == ToInt(ShiftRight(x.mag, k))
        r == LowBits(x.mag, k)
        up == /\ k > 0
              /\ \/ Less(Pow2(k - 1), r)
                 \/ r = Pow2(k - 1) /\ q % 2 = 1
        m == IF up THEN q + 1 ELSE q
    IN IF m # 0 /\ BitLen(Nat_(m)) + e + k > MAX_EXP
       THEN (IF x.neg THEN NEG_INFINITY ELSE INFINITY)
       ELSE f32(IF x.neg THEN 0 - m ELSE m, e + k)

\* the exact sum of two finite f32, as a signed number in units of 2^e
exact_sum(a, b, e) == SignedAdd(Scaled(a.m, a.e - e), Scaled(b.m, b.e - e))

\* a + b
f32_add(a, b) ==
    IF a.k = "nan" \/ b.k = "nan" THEN NAN
    ELSE IF a.k = "inf" /\ b.k = "inf" THEN (IF a.m = b.m THEN a ELSE NAN)
    ELSE IF a.k = "inf" THEN a
    ELSE IF b.k = "inf" THEN b
    ELSE LET e == Min(a.e, b.e)
         IN round_f32(exact_sum(a, b, e), e)

f32_neg(a) == [a EXCEPT !.m = 0 - a.m]

\* a - b
f32_sub(a, b) == f32_add(a, f32_neg(b))

\* the sign of a product or quotient of a and b
Sign(a, b) == IF (a.m < 0) # (b.m < 0) THEN NEG_INFINITY ELSE INFINITY

\* a * b
f32_mul(a, b) ==
    IF a.k = "nan" \/ b.k = "nan" THEN NAN
    ELSE IF a.k = "inf" \/ b.k = "inf"
    THEN (IF a.m = 0 \/ b.m = 0 THEN NAN ELSE Sign(a, b))
    ELSE round_f32(Signed((a.m < 0) # (b.m < 0),
                          Mul(Nat_(Abs(a.m)), Nat_(Abs(b.m)))),
                   a.e + b.e)

\* the bits a step of the long division produces
DIV_STEP == 6

RECURSIVE DivBits(_, _, _)
\* quotient and remainder of r * 2^n by d, for r < d < 2^24
DivBits(r, d, n) ==
    IF n = 0 THEN [q |-> 0, r |-> r]
    ELSE LET step == Min(n, DIV_STEP)
             t == r * 2 ^ step
             rest == DivBits(t % d, d, n - step)
         IN [q |-> (IF t \div d = 0 THEN 0 ELSE (t \div d) * 2 ^ (n - step)) + rest.q,
             r |-> rest.r]

\* the bits of the quotient of two significands, two more than a significand
\* has, so that the remainder of the division is a sticky bit
QUOTIENT_BITS == MANTISSA_DIGITS + 2

\* a / b
f32_div(a, b) ==
    IF a.k = "nan" \/ b.k = "nan" THEN NAN
    ELSE IF a.k = "inf" THEN (IF b.k = "inf" THEN NAN ELSE Sign(a, b))
    ELSE IF b.k = "inf" THEN f32(0, 0)
    ELSE IF b.m = 0 THEN (IF a.m = 0 THEN NAN ELSE Sign(a, b))
    ELSE LET n == Abs(a.m)
             d == Abs(b.m)
             shift == QUOTIENT_BITS + BitLen(Nat_(d)) - BitLen(Nat_(n))
             low == DivBits(n % d, d, shift)
             q == (IF n \div d = 0 THEN 0 ELSE (n \div d) * 2 ^ shift) + low.q
             sticky == IF low.r = 0 THEN 0 ELSE 1
         IN round_f32(Signed((a.m < 0) # (b.m < 0), Nat_(2 * q + sticky)),
                      a.e - b.e - shift - 1)

\* a < b
f32_lt(a, b) ==
    IF a.k = "nan" \/ b.k = "nan" THEN FALSE
    ELSE IF a.k = "inf" THEN a.m < 0 /\ b # a
    ELSE IF b.k = "inf" THEN b.m > 0
    ELSE exact_sum(a, f32_neg(b), Min(a.e, b.e)).neg

\* a <= b
f32_le(a, b) == a.k # "nan" /\ b.k # "nan" /\ ~f32_lt(b, a)

\* a == b
f32_eq(a, b) == a.k # "nan" /\ a = b

f32_abs(a) == [a EXCEPT !.m = Abs(a.m)]

\* f32::min and f32::max: a NaN operand is ignored
f32_min(a, b) ==
    IF a.k = "nan" THEN b
    ELSE IF b.k = "nan" THEN a
    ELSE IF f32_lt(b, a) THEN b ELSE a

f32_max(a, b) ==
    IF a.k = "nan" THEN b
    ELSE IF b.k = "nan" THEN a
    ELSE IF f32_lt(a, b) THEN b ELSE a

\* f32::clamp, which asserts lo <= hi
f32_clamp(a, lo, hi) ==
    IF ~f32_le(lo, hi) THEN [k |-> "panic", m |-> 0, e |-> 0]
    ELSE IF f32_lt(a, lo) THEN lo
    ELSE IF f32_lt(hi, a) THEN hi
    ELSE a

\* f32::EPSILON, 2^-23
EPSILON == f32(1, -23)

\* `n as f32` for an integer below 2^24
as_f32(n) == f32(n, 0)

\* i32::MAX
I32_MAX == 2147483647

\* i32::MIN
I32_MIN == (0 - I32_MAX) - 1

\* libm::round(x as f64) as i32: the nearest integer, halves away from zero;
\* the cast saturates at the bounds of i32 and takes NaN to 0
round_as_i32(x) ==
    IF x.k = "nan" THEN 0
    ELSE IF x.k = "inf" THEN (IF x.m < 0 THEN I32_MIN ELSE I32_MAX)
    ELSE IF x.e >= 0
    THEN LET v == Scaled(x.m, x.e)
         IN IF Leq(Nat_(I32_MAX), v.mag)
            THEN (IF v.neg THEN I32_MIN ELSE I32_MAX)
            ELSE IF v.neg THEN 0 - ToInt(v.mag) ELSE ToInt(v.mag)
    ELSE IF 0 - x.e > MANTISSA_DIGITS + 1 THEN 0
    ELSE LET unit == 2 ^ (0 - x.e)
             q == Abs(x.m) \div unit
             r == Abs(x.m) % unit
             n == IF 2 * r >= unit THEN q + 1 ELSE q
         IN IF x.m < 0 THEN 0 - n ELSE n

\* i32::clamp
clamp(n, lo, hi) == IF n < lo THEN lo ELSE IF n > hi THEN hi ELSE n

(***************************************************************************)
(* Servo::set_angle                                                        *)
(***************************************************************************)
\* set_angle wrote duty d; divided tells whether it evaluated the division
Written(d, divided) == [kind |-> "Ok", duty |-> d, divided |-> divided]

\* set_angle panicked before writing
Panicked == [kind |-> "Panic", duty |-> 0, divided |-> FALSE]

\* pub fn set_angle(&mut self, angle_deg: f32): what it does for config c
set_angle_of(c, angle) ==
    LET a0 == c.angle_min
        a1 == c.angle_max
    IN IF f32_lt(f32_abs(f32_sub(a1, a0)), EPSILON) THEN Written(c.duty_min, FALSE)
       ELSE LET a == f32_clamp(angle, f32_min(a0, a1), f32_max(a0, a1))
            IN IF a.k = "panic" THEN Panicked
               ELSE LET t == f32_div(f32_sub(a, a0), f32_sub(a1, a0))
                        d0 == c.duty_min
                        d1 == c.duty_max
                        x == f32_add(as_f32(d0), f32_mul(t, as_f32(d1 - d0)))
                    IN Written(clamp(round_as_i32(x), 0, c.top), TRUE)

(***************************************************************************)
(* The servo: a clock and a ServoSpec, ServoConfig::new, then set_angle    *)
(***************************************************************************)
\* frame periods 0..MaxSmallFrame are all tried
MaxSmallFrame == 17

\* pub const fn inland_ks0209() -> Self
inland_ks0209 ==
    [frame_us |-> Nat_(20000), pulse_min_us |-> Nat_(1000),
     pulse_max_us |-> Nat_(2000),
     angle_min_deg |-> f32(0, 0), angle_max_deg |-> f32(90, 0)]

\* pub const fn makerhawk_mg995() -> Self
makerhawk_mg995 ==
    [frame_us |-> Nat_(20000), pulse_min_us |-> Nat_(500),
     pulse_max_us |-> Nat_(2500),
     angle_min_deg |-> f32(0, 0), angle_max_deg |-> f32(180, 0)]

\* the PWM clocks tried, in Hz
Clocks ==
    {Nat_(0), Nat_(1000), Mega(12, 345678), Mega(125, 0), Mega(1023, 750000),
     U32_MAX}

\* the short frame periods tried, in microseconds
SmallFrames == {Nat_(n) : n \in 0..MaxSmallFrame}

\* the other frame periods tried
LargeFrames ==
    {Nat_(20000), Nat_(65536), Nat_(65537), Mega(1, 0), Nat_(2 ^ 30),
     Nat_(2 ^ 30 + 1), U32_MAX}

\* the pulse widths tried: <<pulse_min_us, pulse_max_us>>
Pulses ==
    {<<Nat_(1000), Nat_(2000)>>, <<Nat_(500), Nat_(2500)>>,
     <<Nat_(2000), Nat_(1000)>>, <<Nat_(1000), Nat_(2 ^ 30)>>,
     <<U32_MAX, U32_MAX>>}

\* the angle ranges tried: <<angle_min_deg, angle_max_deg>>
AngleRanges ==
    {<<f32(0, 0), f32(90, 0)>>, <<f32(0, 0), f32(180, 0)>>,
     <<f32(90, 0), f32(0, 0)>>, <<f32(45, 0), f32(45, 0)>>,
     <<f32(0, 0), f32(1, -24)>>, <<f32(0, 0), f32(1, -23)>>,
     <<f32_neg(F32_MAX), F32_MAX>>, <<f32(0, 0), INFINITY>>,
     <<INFINITY, INFINITY>>, <<NAN, NAN>>}

\* the angles commanded
Angles ==
    {f32(-100, 0), f32(0, 0), f32(1, -24), f32(1, -23), f32(30, 0), f32(45, 0),
     f32(90, 0), f32(180, 0), f32(200, 0), F32_MAX, INFINITY, NAN}

ServoSpec(period, pulses, range) ==
    [frame_us |-> period, pulse_min_us |-> pulses[1], pulse_max_us |-> pulses[2],
     angle_min_deg |-> range[1], angle_max_deg |-> range[2]]

\* the clocks and specs tried: at 125 MHz every frame period and pulse pair;
\* at the other clocks the large frame periods with every pulse pair and the
\* short ones with the pulses of the KS0209; and at 125 MHz the timing of
\* the presets with every angle range
ServoInputs ==
    LET ks == <<f32(0, 0), f32(90, 0)>>
    IN {<<Mega(125, 0), ServoSpec(f, p, ks)>> :
            f \in SmallFrames \cup LargeFrames, p \in Pulses}
       \cup {<<c, ServoSpec(f, p, ks)>> :
                 c \in Clocks, f \in LargeFrames, p \in Pulses}
       \cup {<<c, ServoSpec(f, <<Nat_(1000), Nat_(2000)>>, ks)>> :
                 c \in Clocks, f \in SmallFrames}
       \cup {<<Mega(125, 0), ServoSpec(Nat_(20000), p, r)>> :
                 p \in {<<Nat_(1000), Nat_(2000)>>, <<Nat_(500), Nat_(2500)>>,
                        <<Nat_(2000), Nat_(1000)>>},
                 r \in AngleRanges}

InitServo ==
    /\ LogsDisplay_new
    /\ clock = 0
    /\ logged = <<>>
    /\ frame = <<>>
    /\ last_render = [some |-> FALSE, t |-> 0, ok |-> FALSE]
    /\ call = NoCall
    /\ prev = Brief(NoCall)
    /\ unrendered = FALSE
    /\ txt_in = <<>>
    /\ txt_op = "none"
    /\ txt_out = NoResult
    /\ \E input \in ServoInputs : pwm_clock_hz = input[1] /\ spec = input[2]
    /\ config = <<>>
    /\ angle_deg = <<>>
    /\ duty = 0
    /\ outcome = <<>>

\* ServoConfig::new and Servo::new: the config is computed and kept
ServoConfig_new ==
    /\ config = <<>>
    /\ config' = new_precomputed(pwm_clock_hz, spec)
    /\ UNCHANGED <<pwm_clock_hz, spec, angle_deg, duty, outcome, logVars, txtVars>>

\* Servo::set_angle: the duty is written to the PWM slice, unless the call
\* panics
set_angle(angle) ==
    /\ config # <<>>
    /\ angle_deg' = angle
    /\ outcome' = set_angle_of(config, angle)
    /\ duty' = IF outcome'.kind = "Ok" THEN outcome'.duty ELSE duty
    /\ UNCHANGED <<pwm_clock_hz, spec, config, logVars, txtVars>>

Servo_set_angle == \E angle \in Angles : set_angle(angle)

NextServo == ServoConfig_new \/ Servo_set_angle

SpecServo == InitServo /\ [][NextServo]_vars

\* C16: for every pwm_clock_hz and every ServoSpec, new_precomputed returns
\* a config with top <= 65535, a divider whose integer part is in [1, 255]
\* (16..4095 in 1/16 units) and duty_min <= duty_max <= top.
C16_ConfigInRange ==
    config # <<>> =>
        /\ config.top <= U16_MAX
        /\ config.divider \in MIN_DIVIDER_Q4..MAX_DIVIDER_Q4
        /\ config.divider \div 16 \in 1..255
        /\ config.duty_min <= config.duty_max
        /\ config.duty_max <= config.top

\* the lower and the upper end of the angle range of the config
LowAngle == f32_min(config.angle_min, config.angle_max)

HighAngle == f32_max(config.angle_min, config.angle_max)

\* the duty count of the pulse that stands for angle a of the two ends
DutyAt(a) == IF f32_eq(a, config.angle_min) THEN config.duty_min ELSE config.duty_max

\* C17: for a config with angle_min != angle_max, set_angle writes exactly
\* duty_min for angle_min and exactly duty_max for angle_max; an angle below
\* the range writes the duty of the lower bound and an angle above it the
\* duty of the upper bound, also when angle_max < angle_min; and the written
\* duty is always in [0, top].
C17_EndsAndClamping ==
    (outcome # <<>> /\ ~f32_eq(config.angle_min, config.angle_max)) =>
        /\ outcome.kind = "Ok"
        /\ duty \in 0..config.top
        /\ f32_eq(angle_deg, config.angle_min) => duty = config.duty_min
        /\ f32_eq(angle_deg, config.angle_max) => duty = config.duty_max
        /\ f32_lt(angle_deg, LowAngle) => duty = DutyAt(LowAngle)
        /\ f32_lt(HighAngle, angle_deg) => duty = DutyAt(HighAngle)

\* C18: when the config has angle_min == angle_max, set_angle writes
\* duty_min for every commanded angle and never evaluates the division by
\* (angle_max - angle_min).
C18_DegenerateRange ==
    (outcome # <<>> /\ f32_eq(config.angle_min, config.angle_max)) =>
        /\ outcome.kind = "Ok"
        /\ duty = config.duty_min
        /\ ~outcome.divided

\* the pulse widths after new_precomputed has clamped them into the frame
ClampedPulseMin == min(spec.pulse_min_us, saturating_sub(spec.frame_us, <<1>>))

ClampedPulseMax ==
    min(max(spec.pulse_max_us, Add(ClampedPulseMin, <<1>>)), spec.frame_us)

\* the clock is 125 MHz and the frame period is in [1, 65536]
At125MHz ==
    /\ pwm_clock_hz = Mega(125, 0)
    /\ Leq(<<1>>, spec.frame_us)
    /\ Leq(spec.frame_us, Nat_(U16_MAX + 1))

\* C19: with pwm_clock_hz = 125_000_000 and frame_us in [1, 65536],
\* new_precomputed picks the 1 MHz tick: tick_hz = 1_000_000, divider 2000
\* in 1/16 units, top = frame_us - 1, and each duty count is its clamped
\* pulse width in microseconds limited to top (KS0209: top 19999, duty
\* 1000..2000; MG995: duty 500..2500); the truncation of the maximum tick
\* rate to 32 bits never lowers the target below 1 MHz.
C19_OneMegahertzTick ==
    (config # <<>> /\ At125MHz) =>
        /\ config.tick_hz = Nat_(US_PER_S)
        /\ config.divider = 2000
        /\ config.top = ToInt(spec.frame_us) - 1
        /\ Nat_(config.duty_min) = min(ClampedPulseMin, Nat_(config.top))
        /\ Nat_(config.duty_max) = min(ClampedPulseMax, Nat_(config.top))
        /\ Leq(Nat_(US_PER_S),
               as_u32(Div(Mul(Nat_(U16_MAX + 1), Nat_(US_PER_S)), spec.frame_us)))
        /\ spec = inland_ks0209 =>
               /\ config.top = 19999
               /\ config.duty_min = 1000
               /\ config.duty_max = 2000
        /\ spec = makerhawk_mg995 =>
               /\ config.duty_min = 500
               /\ config.duty_max = 2500

\* the config of the KS0209 at 125 MHz has been computed
C19_Witness ==
    /\ config # <<>>
    /\ At125MHz
    /\ spec = inland_ks0209
    /\ config.top = 19999
    /\ config.duty_min = 1000
    /\ config.duty_max = 2000

\* round(frame_us * tick_hz / 1_000_000), to the nearest integer
RoundedPeriod ==
    Div(Add(Mul(max(<<1>>, spec.frame_us), config.tick_hz), Nat_(500000)),
        Nat_(US_PER_S))

\* C20: for every clock and spec, the top returned by new_precomputed is
\* min(65535, round(frame_us * tick_hz / 1_000_000) - 1), for the returned
\* tick_hz and round to nearest.
C20_TopIsRoundedPeriod ==
    config # <<>> =>
        /\ RoundedPeriod # <<>>
        /\ Nat_(config.top) = min(Nat_(U16_MAX), Sub(RoundedPeriod, <<1>>))

\* the spec after the clamps of new_precomputed: frame_us' = max(1, frame_us),
\* pulse_min' = min(pulse_min, frame_us' - 1) and
\* pulse_max' = min(max(pulse_max, pulse_min' + 1), frame_us')
FrameClamped == max(<<1>>, spec.frame_us)

PulseMinClamped == min(spec.pulse_min_us, Sub(FrameClamped, <<1>>))

PulseMaxClamped ==
    min(max(spec.pulse_max_us, Add(PulseMinClamped, <<1>>)), FrameClamped)

\* round(pulse_us * tick_hz / 1_000_000), to the nearest integer, for the
\* tick rate of the config
RoundedCounts(pulse_us) ==
    Div(Add(Mul(pulse_us, config.tick_hz), Nat_(500000)), Nat_(US_PER_S))

\* C21: new_precomputed clamps the spec (frame_us' = max(1, frame_us),
\* pulse_min' = min(pulse_min, frame_us' - 1), pulse_max' =
\* min(max(pulse_max, pulse_min' + 1), frame_us'), where pulse_min' + 1 stays
\* within u32), and then duty_min = min(top, round(pulse_min' * tick_hz /
\* 1_000_000)) and duty_max = min(top, round(pulse_max' * tick_hz /
\* 1_000_000)), rounding to nearest.
C21_DutyFromClampedPulses ==
    config # <<>> =>
        /\ Leq(Add(PulseMinClamped, <<1>>), U32_MAX)
        /\ Nat_(config.duty_min) = min(Nat_(config.top), RoundedCounts(PulseMinClamped))
        /\ Nat_(config.duty_max) = min(Nat_(config.top), RoundedCounts(PulseMaxClamped))

\* the tick rate aimed at, without the limits of 32 bits
TargetTickHz ==
    min(Nat_(US_PER_S),
        max(<<1>>, Div(Mul(Nat_(U16_MAX + 1), Nat_(US_PER_S)), FrameClamped)))

\* d0: round(clock_hz * 16 / target_tick_hz) brought into [16, 4095]
RoundedFirstDivider ==
    ToInt(min(max(Div(Add(Mul(pwm_clock_hz, Nat_(16)), Div(TargetTickHz, <<2>>)),
                      TargetTickHz),
                  Nat_(MIN_DIVIDER_Q4)),
              Nat_(MAX_DIVIDER_Q4)))

\* the period in ticks at divider d (in 1/16 units), less one: TOP before it
\* is limited to 65535
UnclampedTop(d) ==
    LET tick_hz == Div(Mul(pwm_clock_hz, Nat_(16)), Nat_(d))
    IN saturating_sub(Div(Mul(FrameClamped, tick_hz), Nat_(US_PER_S)), <<1>>)

TopFits(d) == Leq(UnclampedTop(d), Nat_(U16_MAX))

\* C22: the divider search ends, and the divider returned (in 1/16 units) is
\* the smallest d with d0 <= d <= 4095 whose unclamped top is at most 65535,
\* where d0 is round(clock_hz * 16 / target_tick_hz) brought into
\* [16, 4095]; if there is no such d, the divider is 4095 and top is 65535.
C22_SmallestFittingDivider ==
    config # <<>> =>
        /\ config.divider \in RoundedFirstDivider..MAX_DIVIDER_Q4
        /\ \A d \in RoundedFirstDivider..(config.divider - 1) : ~TopFits(d)
        /\ \/ TopFits(config.divider)
           \/ config.divider = MAX_DIVIDER_Q4 /\ config.top = U16_MAX

\* C23: between the public calls of LogsDisplay, dirty is true if and only
\* if a message has been pushed since the last successful physical render
\* (since construction when none has succeeded); after log() returns, dirty
\* is false only if the render of that call succeeded.
C23_DirtyIffUnrendered ==
    /\ dirty <=> unrendered
    /\ (call.op = "log" /\ ~dirty) => (call.rendered /\ call.ok)

\* a log() that was throttled, leaving dirty set, was followed by a log()
\* whose render succeeded and cleared it
C23_Witness ==
    /\ call.op = "log"
    /\ call.rendered
    /\ call.ok
    /\ call.dirty_in
    /\ ~dirty
    /\ ~unrendered
    /\ prev.op = "log"
    /\ ~prev.rendered
    /\ Len(logged) >= 3

\* the outcome of validating txt_in for the display call that was made
Validated ==
    IF txt_op = "ks0061_display_str" THEN InlandKs0061Content_try_from(txt_in)
    ELSE LcdContent_try_from(txt_in)

\* C24: a one-shot display call whose input fails validation (display_str
\* of the KS0061 and of Lcd; display_str and display_str_arr of the SH1106)
\* returns the validation error and performs no display operation: no
\* clear, no cursor move, no print, no change of the frame buffer and no
\* flush.
C24_InvalidInputLeavesDisplay ==
    /\ (txt_op \in {"ks0061_display_str", "lcd_display_str"}
           /\ Validated.kind # "Ok") =>
           /\ txt_out.kind = "InvalidContent"
           /\ txt_out.error = Validated
           /\ txt_out.ops = <<>>
    /\ (txt_op \in {"oled_display_str", "oled_display_str_arr"}
           /\ txt_out.kind \in {"TooManyLines", "LineTooLong"}) =>
           txt_out.ops = <<>>

\* C26: for every string s, display_str(s) and display_str_arr of the
\* segments of s split on '\n' give the same outcome: both succeed and draw
\* the same lines, or both fail with the same error and the same fields
\* (TooManyLines with actual_lines the number of segments and max_lines 10,
\* or LineTooLong with the index and the character count of the first line
\* of more than 32 characters).
C26_StrAndArrAgree ==
    txt_op = "oled_display_str" =>
        LET segs == split_newline(txt_in)
            arr == display_str_arr(segs, txt_out.kind # "Communication")
        IN /\ txt_out.kind = arr.kind
           /\ txt_out.actual = arr.actual
           /\ txt_out.max = arr.max
           /\ txt_out.index = arr.index
           /\ txt_out.ops = arr.ops
           /\ txt_out.kind = "TooManyLines" =>
                  /\ txt_out.actual = Len(segs)
                  /\ txt_out.max = INLAND_SH1106_MAX_TEXT_LINES

\* the latest public call was a flush() whose transport did not fail, made
\* after at least one log()
FlushedOk ==
    /\ call.op = "flush"
    /\ logged # <<>>
    /\ call.rendered => call.ok

\* the latest public call was a log() whose render was throttled
Throttled == call.op = "log" /\ ~call.rendered

\* the frame shows the last min(m, 10) of the m messages logged, each cut to
\* 32 characters, bottom-aligned below empty lines
FrameShowsLast ==
    LET n == Min(Len(logged), INLAND_SH1106_MAX_TEXT_LINES)
        pad == INLAND_SH1106_MAX_TEXT_LINES - n
    IN /\ Len(frame) = INLAND_SH1106_MAX_TEXT_LINES
       /\ \A k \in 1..pad : frame[k] = <<>>
       /\ \A i \in 1..n :
              frame[pad + i] = Prefix(LastN(logged, n)[i], INLAND_SH1106_MAX_CHARS_PER_LINE)

\* a step that renders: display_str_arr is called, within log() or flush()
RenderStep == call'.rendered /\ call'.op \in {"log", "flush"}

\* C25: if the transport succeeds, then after any sequence of log() calls
\* at arbitrary times followed by one flush(), dirty is false and the last
\* frame rendered is the current ring content (the last min(m, 10)
\* messages, bottom-aligned); and a message whose render was throttled stays
\* unrendered, with dirty set, until a later log() or flush(): no step that
\* is not one of these calls renders.
C25_FlushShowsRing ==
    /\ [](FlushedOk => (~dirty /\ FrameShowsLast))
    /\ [](Throttled => (dirty /\ ~FrameShowsLast))
    /\ [][(frame' # frame \/ last_render' # last_render) => RenderStep]_vars

\* three messages were logged, the last one throttled, and a flush() within
\* the refresh interval rendered all three
C25_Witness ==
    /\ FlushedOk
    /\ call.rendered
    /\ prev.op = "log"
    /\ ~prev.rendered
    /\ call.now < call.last_in.t + INLAND_SH1106_LOGS_REFRESH_INTERVAL_MS
    /\ Len(logged) >= 3
    /\ ~dirty
    /\ FrameShowsLast

TypeOK ==
    /\ head \in Slots
    /\ count \in 0..INLAND_SH1106_MAX_TEXT_LINES
    /\ dirty \in BOOLEAN
    /\ clock \in 0..MaxClock
====
